---- MODULE Spec2Model ----
(***************************************************************************)
(* The breathing-rate loggers a111_breathing_rasp_0902_v1.py and _v2.py:   *)
(* numeric extraction, quality estimate, validity gate, smoothing buffer,  *)
(* one-second emitter, and the session life cycle around the frame loop.   *)
(*                                                                         *)
(* Numbers.  Every real of the program (Hz, bpm, dB, progress, ratios) is  *)
(* a fixed-point integer in hundredths: 0.25 Hz is 25, 15.0 bpm is 1500.   *)
(* A mean is kept as an exact fraction [n, d] of hundredths.  Wall-clock   *)
(* time is counted in ticks, TicksPerSec of them to a second.              *)
(* "No value" (Python None) is the empty tuple, a value v is <<v>>.        *)
(***************************************************************************)
EXTENDS Integers, Sequences, FiniteSets, TLC

VARIABLES
    script,        \* "v1" or "v2": which of the two programs runs
    args,          \* the parsed command line (argparse namespace)
    pc,            \* position in main: "start", "started", "loop", "finally", "exited"
    session,       \* sensor session: "none", "started", "stopped"
    client,        \* client link object: "connected", "disconnected"
    link,          \* the transport under the client: "up" or "down"
    csv_fh,        \* v2's secondary output: "None", "open", "closed"
    exc,           \* exception in flight / the one main exits with ("none" if none)
    cleanup,       \* what the finally block did: "not_run", "completed", "raised"
    q,             \* deque of accepted raw bpm values
    last_good_bpm, \* None or <<fraction>>: the smoothed value
    last_good_t,   \* time of the last acceptance, in ticks
    next_tick,     \* the emitter's cursor, a whole unix second
    clk,           \* the wall clock as last read, in ticks
    tick0,         \* math.floor(t0) + 1, the first value of next_tick
    naccept,       \* how many frames the run has accepted so far
    fr,            \* the last loop iteration: x what it extracted from the frame,
                   \* valid its verdict, lg0 the last_good_bpm it started with
    out,           \* the records the last loop iteration printed
    unixLog,       \* unix_s of every record printed so far, in order
    launcher       \* run_single_sync.py: pc its position in main, max_dur the
                   \* configured max_duration_s, child the two child processes,
                   \* sig the last signal sent to each child's process group,
                   \* open the log files that are open, files_to_close the list
                   \* main keeps, i the child the final loop waits for, exc

vars == <<script, args, pc, session, client, link, csv_fh, exc, cleanup, q,
          last_good_bpm, last_good_t, next_tick, clk, tick0, naccept, fr, out,
          unixLog, launcher>>

None == <<>>
Some(v) == <<v>>

(***************************************************************************)
(* Bounds of the model.                                                    *)
(***************************************************************************)
TicksPerSec == 2     \* clock resolution
MaxSecs == 3         \* the clock stops that many seconds after the start second
MaxWindow == 2       \* largest --smooth-window the v2 command line is given
HoldSecs == 1        \* the --hold-last-for the command line is given
MaxAccepts == 3      \* the run accepts at most that many frames
MaxBuf == 4          \* longest buffer the reduction is applied to on its own

StartTick == 100 * TicksPerSec     \* the run starts in unix second 100
MaxTick == StartTick + MaxSecs * TicksPerSec + (TicksPerSec - 1)

(***************************************************************************)
(* Program constants (argparse defaults and literals), in hundredths.      *)
(***************************************************************************)
f_low_v1 == 8
f_low_v2 == 12
f_high_default == 70
snr_min_default == 1000
max_step_bpm_default == 600
max_ratio_default == 150
prominence_min_default == 160
smooth_window_v1 == 5
warm_up_min == 99

\* exact fractions
\* the greatest common divisor of n >= 0 and d >= 1
GCD(n, d) == CHOOSE g \in 1..d :
                 /\ n % g = 0 /\ d % g = 0
                 /\ \A h \in (g + 1)..d : ~(n % h = 0 /\ d % h = 0)
Frac(n, d) == LET g == GCD(n, d) IN [n |-> n \div g, d |-> d \div g]
Whole(v) == [n |-> v, d |-> 1]

RECURSIVE SumSeq(_)
SumSeq(s) == IF s = <<>> THEN 0 ELSE Head(s) + SumSeq(Tail(s))

Sorted(s) == SortSeq(s, LAMBDA a, b : a < b)


(***************************************************************************)
(* Frame results.  res is what proc.process returns: a dict (dict = TRUE,  *)
(* f its scalar entries, ps its "power_spectrum" entry) or something else. *)
(* An entry is a number, a bool, a non-finite float, or Python None.       *)
(***************************************************************************)
Num(v) == [t |-> "num", v |-> v]
Bool(b) == [t |-> "bool", v |-> IF b THEN 1 ELSE 0]
NaN == [t |-> "nan", v |-> 0]
PyNone == [t |-> "none", v |-> 0]

\* res.get(k)
Get(res, k) == IF k \in DOMAIN res.f THEN res.f[k] ELSE PyNone

\* isinstance(res, dict) and res.get(k)
DictAnd(res, k) == IF res.dict THEN Get(res, k) ELSE Bool(FALSE)

\* v1: float(x) accepts a bool (True is 1.0, False is 0.0)
safe_float_v1(x) ==
    CASE x.t = "num" -> Some(x.v)
      [] x.t = "bool" -> Some(100 * x.v)
      [] OTHER -> None

\* v2: a bool is refused before float(x)
safe_float_v2(x) ==
    IF x.t = "bool" THEN None
    ELSE CASE x.t = "num" -> Some(x.v)
           [] OTHER -> None

safe_float(ver, x) == IF ver = "v1" THEN safe_float_v1(x) ELSE safe_float_v2(x)

HzKeys == <<"f_est", "f_dft_est", "breathing_rate_hz", "freq_hz", "f_hat", "resp_rate_hz">>
BpmKeys == <<"breathing_rate_bpm", "respiratory_rate_bpm", "bpm">>

\* the first key of keys whose entry safe_float accepts, times mult
RECURSIVE FirstOf(_, _, _, _)
FirstOf(ver, res, keys, mult) ==
    IF keys = <<>> THEN None
    ELSE LET v == safe_float(ver, Get(res, Head(keys)))
         IN  IF v # None THEN Some(v[1] * mult)
             ELSE FirstOf(ver, res, Tail(keys), mult)

bpm_from_res(ver, res) ==
    IF ~res.dict THEN None
    ELSE LET hz == FirstOf(ver, res, HzKeys, 60)
         IN  IF hz # None THEN hz ELSE FirstOf(ver, res, BpmKeys, 1)

\* ip/100.0 if ip > 1.0 else ip   (1.0 is 100 hundredths)
norm_init_progress(ver, res) ==
    LET raw == IF ver = "v1" THEN DictAnd(res, "init_progress")
               ELSE IF res.dict THEN Get(res, "init_progress") ELSE PyNone
        ip == safe_float(ver, raw)
    IN  IF ip = None THEN 100
        ELSE IF ip[1] > 100 THEN ip[1] \div 100 ELSE ip[1]

(***************************************************************************)
(* Quality.  A quality is [k, n, d]: k = "db" is n hundredths of a dB as   *)
(* the frame reports it; k = "lin" is the power ratio n/d of the custom    *)
(* estimate, whose dB value is 10*log10(n/d).                              *)
(***************************************************************************)
MaxOf(s) == CHOOSE m \in {s[i] : i \in 1..Len(s)} : \A i \in 1..Len(s) : s[i] <= m

\* np.nanargmax: the first index of the maximum (1-based here)
ArgMax(s) == CHOOSE i \in 1..Len(s) :
                 /\ s[i] = MaxOf(s)
                 /\ \A j \in 1..(i - 1) : s[j] # s[i]

\* mask[lo:hi] = False; noise = ps[mask]; noise = noise[noise > 0]
\* for the peak at position p of a (1-based): positions p-2..p+2 are masked
Noise(a, p) ==
    LET lo == IF p - 2 < 1 THEN 1 ELSE p - 2
        hi == IF p + 2 > Len(a) THEN Len(a) ELSE p + 2
    IN  SelectSeq(SubSeq(a, 1, lo - 1) \o SubSeq(a, hi + 1, Len(a)), LAMBDA v : v > 0)

\* 10 * log10(peak / median), kept as the ratio peak / median
SnrOf(peak, m) ==
    LET r == Frac(peak * m.d, m.n) IN [k |-> "lin", n |-> r.n, d |-> r.d]

\* np.median: the middle of the sorted values, the two middles averaged
NpMedian(s) ==
    LET t == Sorted(s)
        n == Len(t)
    IN  IF n % 2 = 1 THEN Whole(t[(n + 1) \div 2])
        ELSE Frac(t[n \div 2] + t[n \div 2 + 1], 2)

custom_snr(ps) ==
    IF ps = None THEN None
    ELSE IF ~(Len(ps[1]) > 8 /\ \E i \in 1..Len(ps[1]) : ps[1][i] > 0) THEN None
    ELSE IF Noise(ps[1], ArgMax(ps[1])) = <<>> THEN None
    ELSE Some(SnrOf(MaxOf(ps[1]), NpMedian(Noise(ps[1], ArgMax(ps[1])))))

reported_snr(ver, res) ==
    LET v == safe_float(ver, DictAnd(res, "snr"))
    IN  IF v = None THEN None ELSE Some([k |-> "db", n |-> v[1], d |-> 1])

\* the power ratio of a whole number of tens of dB
DbToLinear(db) == CASE db = 0 -> 1 [] db = 1000 -> 10 [] db = 2000 -> 100

\* snr >= snr_min
SnrAtLeast(snr, min) ==
    IF snr.k = "db" THEN snr.n >= min
    ELSE snr.n >= DbToLinear(min) * snr.d


(***************************************************************************)
(* Validity gate.                                                          *)
(***************************************************************************)
\* (ip is None or ip >= 0.99) and (snr is None or snr >= snr_min)
\*   and (raw_bpm is not None and bpm_lo <= raw_bpm <= bpm_hi)
InBand(a, raw_bpm) ==
    /\ raw_bpm # None
    /\ 60 * a.f_low <= raw_bpm[1]
    /\ raw_bpm[1] <= 60 * a.f_high

\* BaseValid with an unknown quality failing the quality gate
BaseValidKnownSnr(a, ip, snr, raw_bpm) ==
    /\ ip >= warm_up_min
    /\ snr # None
    /\ SnrAtLeast(snr[1], a.snr_min)
    /\ InBand(a, raw_bpm)

BaseValid(a, ip, snr, raw_bpm) ==
    /\ ip >= warm_up_min
    /\ (snr = None \/ SnrAtLeast(snr[1], a.snr_min))
    /\ InBand(a, raw_bpm)

\* 'np' in globals(): numpy is imported inside main (import numpy as np in
\* the function body), which binds a local of main, never a module global
NpInGlobals == FALSE

\* tops = the three largest values, sorted; needs at least three bins
\* (np.argpartition(ps, -3) raises on fewer, and the except passes)
LowProminence(a, arr) ==
    /\ Len(arr) >= 3
    /\ LET t == Sorted(arr)
           n == Len(t)
       IN  /\ t[n - 1] > 0
           /\ 100 * t[n] < a.prominence_min * t[n - 1]

ProminenceGate(a, valid, ps) ==
    IF valid /\ ps # None /\ NpInGlobals
    THEN ~LowProminence(a, ps[1])
    ELSE valid

\* max(1e-6, last_good_bpm), as a fraction of hundredths
Eps == [n |-> 1, d |-> 10000]
MaxEps(lg) == IF lg.n > 0 THEN lg ELSE Eps

\* StepReject never rejecting
StepRejectNever(a, raw, lg) == FALSE

\* abs(raw - lg) > max_step or r > max_ratio or r < 1/max_ratio
StepReject(a, raw, lg) ==
    LET m == MaxEps(lg)
        diff == raw * lg.d - lg.n
        adiff == IF diff < 0 THEN 0 - diff ELSE diff
    IN  \/ adiff > a.max_step_bpm * lg.d
        \/ 100 * raw * m.d > a.max_ratio * m.n
        \/ a.max_ratio * raw * m.d < 100 * m.n

StepGate(a, valid, raw_bpm, lg) ==
    IF valid /\ lg # None
    THEN ~StepReject(a, raw_bpm[1], lg[1])
    ELSE valid

(***************************************************************************)
(* Smoothing buffer.                                                       *)
(***************************************************************************)
\* DequeAppend refusing the new entry when the deque is full
DequeKeepOldest(d, x, maxlen) ==
    IF Len(d) < maxlen THEN Append(d, x) ELSE d

\* deque(maxlen=n).append(x): the oldest entry leaves a full deque, and a
\* deque of maxlen 0 stays empty
DequeAppend(d, x, maxlen) ==
    IF maxlen = 0 THEN <<>>
    ELSE IF Len(d) < maxlen THEN Append(d, x)
    ELSE Append(Tail(d), x)

\* Push appending the raw bpm of every frame that has one, accepted or not
PushAlways(valid, d, raw_bpm, maxlen) ==
    IF raw_bpm # None THEN DequeAppend(d, raw_bpm[1], maxlen) ELSE d

\* if valid: q.append(raw_bpm)
Push(valid, d, raw_bpm, maxlen) ==
    IF valid THEN DequeAppend(d, raw_bpm[1], maxlen) ELSE d

\* Median taking the lower of the two middle entries of an even count
MedianLower(d) == Whole(Sorted(d)[(Len(d) + 1) \div 2])

\* sorted(q)[len(q)//2]   (0-based index len//2 is position len \div 2 + 1)
Median(d) == Whole(Sorted(d)[Len(d) \div 2 + 1])

\* Mean dividing by the deque's capacity instead of its length
MeanOverWindow(d) == Frac(SumSeq(d), smooth_window_v1)

\* sum(q)/len(q)
Mean(d) == Frac(SumSeq(d), Len(d))

Smooth(method, d) == IF method = "median" THEN Median(d) ELSE Mean(d)

(***************************************************************************)
(* Emitter.                                                                *)
(***************************************************************************)
\* f"{x:.2f}": the nearest hundredth
Fmt2(x) == (2 * x.n + x.d) \div (2 * x.d)

Tok(name, k, n, d) == [name |-> name, k |-> k, n |-> n, d |-> d]

\* Held with a strict comparison
HeldStrict(a, lg, lgt, now) == lg # None /\ (now - lgt) < a.hold_last_for

\* held = (last_good_bpm is not None) and ((now - last_good_t) <= hold_last_for)
Held(a, lg, lgt, now) == lg # None /\ (now - lgt) <= a.hold_last_for

OutBpm(a, lg, lgt, now) == IF Held(a, lg, lgt, now) THEN Some(Fmt2(lg[1])) ELSE None

\* RawToken without v2's band condition
RawTokenAnyBand(ver, a, raw_bpm, valid) == raw_bpm # None /\ ~valid

RawToken(ver, a, raw_bpm, valid) ==
    IF ver = "v1" THEN raw_bpm # None /\ ~valid
    ELSE raw_bpm # None /\ ~valid /\ InBand(a, raw_bpm)

Note(ver, a, lg, lgt, now, snr, ip, raw_bpm, valid) ==
    (IF ver = "v2" /\ Held(a, lg, lgt, now) THEN <<Tok("held", "num", 1, 1)>> ELSE <<>>)
    \o (IF snr # None THEN <<Tok("snr", snr[1].k, snr[1].n, snr[1].d)>> ELSE <<>>)
    \o <<Tok("init", "num", ip, 1)>>
    \o (IF RawToken(ver, a, raw_bpm, valid) THEN <<Tok("raw", "num", raw_bpm[1], 1)>> ELSE <<>>)

\* Record giving the bpm only to the record of the second of now
RecordNewestOnly(nt, now, bpm, note) ==
    [hms |-> now \div TicksPerSec, unix_s |-> nt,
     bpm |-> IF nt = now \div TicksPerSec THEN bpm ELSE None, note |-> note]

Record(nt, now, bpm, note) ==
    [hms |-> now \div TicksPerSec, unix_s |-> nt, bpm |-> bpm, note |-> note]

\* EmitIf printing only while now is still inside the second of next_tick
EmitStall(now, nt, bpm, note, acc) ==
    IF now >= nt * TicksPerSec /\ now \div TicksPerSec = nt
    THEN [out |-> Append(acc, Record(nt, now, bpm, note)), next_tick |-> nt + 1]
    ELSE [out |-> acc, next_tick |-> nt]

\* v1: if now >= next_tick: print a record; next_tick += 1
EmitIf(now, nt, bpm, note, acc) ==
    IF now >= nt * TicksPerSec
    THEN [out |-> Append(acc, Record(nt, now, bpm, note)), next_tick |-> nt + 1]
    ELSE [out |-> acc, next_tick |-> nt]

\* EmitWhile with an if in place of the while
EmitOnce(now, nt, bpm, note, acc) ==
    IF now >= nt * TicksPerSec
    THEN [out |-> Append(acc, Record(nt, now, bpm, note)), next_tick |-> nt + 1]
    ELSE [out |-> acc, next_tick |-> nt]

\* EmitWhile printing one record and moving the cursor past now
EmitSkip(now, nt, bpm, note, acc) ==
    IF now >= nt * TicksPerSec
    THEN [out |-> Append(acc, Record(nt, now, bpm, note)),
          next_tick |-> now \div TicksPerSec + 1]
    ELSE [out |-> acc, next_tick |-> nt]

\* v2: while now >= next_tick: print a record; next_tick += 1
RECURSIVE EmitWhile(_, _, _, _, _)
EmitWhile(now, nt, bpm, note, acc) ==
    IF now >= nt * TicksPerSec
    THEN EmitWhile(now, nt + 1, bpm, note, Append(acc, Record(nt, now, bpm, note)))
    ELSE [out |-> acc, next_tick |-> nt]

Emit(ver, now, nt, bpm, note) ==
    IF ver = "v1" THEN EmitIf(now, nt, bpm, note, <<>>)
    ELSE EmitWhile(now, nt, bpm, note, <<>>)


(***************************************************************************)
(* Inputs: the frame results the processor may return, and the command     *)
(* lines the programs may be given.                                        *)
(***************************************************************************)
Res(f, ps) == [dict |-> TRUE, f |-> f, ps |-> ps]
NoFields == [k \in {} |-> PyNone]

\* ten bins, peak 100 over a floor of 1: 20 dB, peak/second = 100
PsGood == <<1, 1, 1, 1, 100, 1, 1, 1, 1, 1>>
\* 20 dB over the median floor, but a second peak of 80: peak/second = 1.25
PsTwoPeaks == <<1, 1, 1, 1, 100, 1, 1, 1, 1, 80>>
\* peak 100 over a floor of 20: under 10 dB
PsNoisy == <<20, 20, 20, 20, 100, 20, 20, 20, 20, 20>>

\* a frame the gates pass: f_est = 0.25 Hz (15 bpm), snr 12 dB, progress 1.0
F15 == Res(("f_est" :> Num(25)) @@ ("snr" :> Num(1200)) @@ ("init_progress" :> Num(100)), None)
\* 20 bpm under a bpm key, progress given as 99 percent
F20 == Res(("bpm" :> Num(2000)) @@ ("snr" :> Num(1200)) @@ ("init_progress" :> Num(9900)), None)
\* 23 bpm, no reported quality, no progress, a clean spectrum
F23 == Res("bpm" :> Num(2300), Some(PsGood))
\* 100 bpm: out of band
FBand == Res(("bpm" :> Num(10000)) @@ ("snr" :> Num(1200)) @@ ("init_progress" :> Num(100)), None)
\* 8 dB reported: under snr_min
FLowSnr == Res(("f_est" :> Num(25)) @@ ("snr" :> Num(800)), None)
\* progress 50 percent: still warming up
FWarm == Res(("f_est" :> Num(25)) @@ ("init_progress" :> Num(5000)), None)
\* the processor returned something that is not a dict
FNotDict == [dict |-> FALSE, f |-> NoFields, ps |-> None]
\* 20 bpm with a second spectral peak close to the first
FTwoPeaks == Res(("bpm" :> Num(2000)) @@ ("snr" :> Num(1200)), Some(PsTwoPeaks))
\* 20 bpm, 12 dB reported, but a noisy spectrum
FNoisy == Res(("bpm" :> Num(2000)) @@ ("snr" :> Num(1200)), Some(PsNoisy))
\* bool-valued entries: f_est = True, snr = True, and 20 bpm under a bpm key
FBool == Res(("f_est" :> Bool(TRUE)) @@ ("bpm" :> Num(2000)) @@ ("snr" :> Bool(TRUE)), None)

Frames == {F15, F20, F23, FBand, FLowSnr, FWarm, FNotDict, FTwoPeaks, FNoisy, FBool}

\* the frames of the runs that explore the clock: two that can be accepted
\* and one that cannot
ClockFrames == {F15, F20, FBand}

\* the frames of the life-cycle runs
LifeFrames == {F15, FBand}

\* the launcher when it is not the program under study
Children == <<"RADAR", "GDX">>
NoChild == [c \in {"RADAR", "GDX"} |-> "none"]
LauncherOff == [pc |-> "off", max_dur |-> 0, child |-> NoChild, sig |-> NoChild,
                open |-> {}, files_to_close |-> {}, i |-> 1, exc |-> "none"]

\* the namespace parse_args returns; v1 has no smoothing options: its window
\* is the literal 5 and its reduction the mean
ArgsOf(ver) ==
    IF ver = "v1"
    THEN { [f_low |-> f_low_v1, f_high |-> f_high_default, snr_min |-> snr_min_default,
            hold_last_for |-> HoldSecs * TicksPerSec,
            smooth_window |-> smooth_window_v1, smooth |-> "mean",
            prominence_min |-> prominence_min_default,
            max_step_bpm |-> max_step_bpm_default, max_ratio |-> max_ratio_default,
            out |-> "None"] }
    ELSE { [f_low |-> f_low_v2, f_high |-> f_high_default, snr_min |-> snr_min_default,
            hold_last_for |-> HoldSecs * TicksPerSec,
            smooth_window |-> w, smooth |-> m,
            prominence_min |-> prominence_min_default,
            max_step_bpm |-> max_step_bpm_default, max_ratio |-> max_ratio_default,
            out |-> o] : <<w, m, o>> \in
                ({<<MaxWindow, "mean", "None">>}
                 \cup {<<v, "median", "out.csv">> : v \in 0..MaxWindow}) }

\* math.floor(t0) + 1
FirstTick(t) == t \div TicksPerSec + 1

(***************************************************************************)
(* The state at process start, and the state on entry to the try block.    *)
(***************************************************************************)
Init ==
    /\ script \in {"v1", "v2"}
    /\ args \in ArgsOf(script)
    /\ pc = "start"
    /\ session = "none"
    /\ client = "disconnected"
    /\ link = "up"
    /\ csv_fh = "None"
    /\ exc = "none"
    /\ cleanup = "not_run"
    /\ q = <<>>
    /\ last_good_bpm = None
    /\ last_good_t = 0
    /\ clk \in {StartTick, StartTick + 1}
    /\ tick0 = FirstTick(clk)
    /\ naccept = 0
    /\ next_tick = FirstTick(clk)
    /\ fr = None
    /\ out = <<>>
    /\ unixLog = <<>>
    /\ launcher = LauncherOff

\* q = deque(maxlen=...); last_good_bpm = None; last_good_t = 0.0;
\* t0 = time.time(); next_tick = math.floor(t0) + 1
InitLoop ==
    /\ script \in {"v1", "v2"}
    /\ args \in ArgsOf(script)
    /\ pc = "loop"
    /\ session = "started"
    /\ client = "connected"
    /\ link = "up"
    /\ csv_fh = IF args.out = "None" THEN "None" ELSE "open"
    /\ exc = "none"
    /\ cleanup = "not_run"
    /\ q = <<>>
    /\ last_good_bpm = None
    /\ last_good_t = 0
    /\ clk \in {StartTick, StartTick + 1}
    /\ tick0 = FirstTick(clk)
    /\ naccept = 0
    /\ next_tick = FirstTick(clk)
    /\ fr = None
    /\ out = <<>>
    /\ unixLog = <<>>
    /\ launcher = LauncherOff


(***************************************************************************)
(* Start-up: everything main does before the try block.                    *)
(***************************************************************************)
\* sess = client.setup_session(cfg); client.start_session()
StartSession ==
    /\ pc = "start"
    /\ \E ok \in BOOLEAN :
          IF ok
          THEN /\ pc' = "started"
               /\ session' = "started"
               /\ client' = "connected"
               /\ exc' = exc
          ELSE /\ pc' = "exited"
               /\ exc' = "ClientError"
               /\ UNCHANGED <<session, client>>
    /\ UNCHANGED <<launcher, script, args, link, csv_fh, cleanup, q, last_good_bpm, last_good_t,
                   next_tick, clk, tick0, naccept, fr, out, unixLog>>

\* v2 reads args.out_csv; the parser defines --out, whose attribute is out
OpenOut(ver, a) ==
    IF ver = "v1" THEN "None"
    ELSE IF "out_csv" \notin DOMAIN a THEN "AttributeError"
    ELSE IF a["out_csv"] = "None" THEN "None" ELSE "open"

\* the processor set-up, the header line, the secondary output, the pipeline
\* state and the first tick; none of it is inside the try block
Prepare ==
    /\ pc = "started"
    /\ \E procOk \in BOOLEAN, t \in clk..(StartTick + TicksPerSec - 1) :
          IF ~procOk
          THEN /\ pc' = "exited"
               /\ exc' = "ProcessorError"
               /\ UNCHANGED <<csv_fh, clk, tick0, next_tick>>
          ELSE IF OpenOut(script, args) = "AttributeError"
          THEN /\ pc' = "exited"
               /\ exc' = "AttributeError"
               /\ UNCHANGED <<csv_fh, clk, tick0, next_tick>>
          ELSE /\ pc' = "loop"
               /\ exc' = exc
               /\ csv_fh' = OpenOut(script, args)
               /\ clk' = t
               /\ tick0' = FirstTick(t)
               /\ next_tick' = FirstTick(t)
    /\ q' = <<>>
    /\ last_good_bpm' = None
    /\ last_good_t' = 0
    /\ UNCHANGED <<launcher, script, args, session, client, link, cleanup, naccept, fr, out, unixLog>>

(***************************************************************************)
(* One iteration of the frame loop: fetch, extract, gate, smooth, emit.    *)
(***************************************************************************)
Snr(ver, res) ==
    IF ver = "v1" THEN reported_snr(ver, res)
    ELSE LET c == custom_snr(IF res.dict THEN res.ps ELSE None)
         IN  IF c # None THEN c ELSE reported_snr(ver, res)

\* Valid without the plausible-step gate
ValidNoStep(ver, a, ip, snr, raw_bpm, ps, lg) ==
    ProminenceGate(a, BaseValid(a, ip, snr, raw_bpm), ps)

Valid(ver, a, ip, snr, raw_bpm, ps, lg) ==
    LET base == BaseValid(a, ip, snr, raw_bpm)
    IN  IF ver = "v1" THEN base
        ELSE StepGate(a, ProminenceGate(a, base, ps), raw_bpm, lg)

\* what one iteration extracts from the frame before it reads the clock:
\* ip, raw_bpm, ps, snr.  They depend on the frame alone.
Extract(ver, res) ==
    [ip |-> norm_init_progress(ver, res),
     raw_bpm |-> bpm_from_res(ver, res),
     ps |-> IF res.dict THEN res.ps ELSE None,
     snr |-> Snr(ver, res)]

Extracted == [ver \in {"v1", "v2"}, res \in Frames |-> Extract(ver, res)]

FrameStep(frames, lastTick) ==
    /\ pc = "loop"
    /\ \E res \in frames, now \in clk..lastTick :
          LET x == Extracted[script, res]
              valid == Valid(script, args, x.ip, x.snr, x.raw_bpm, x.ps, last_good_bpm)
              n1 == IF valid THEN naccept + 1 ELSE naccept
              q1 == Push(valid, q, x.raw_bpm, args.smooth_window)
              \* sorted(q)[0] / sum(q)/0 on the deque of maxlen 0
              raised == valid /\ q1 = <<>>
              lg1 == IF valid /\ ~raised THEN Some(Smooth(args.smooth, q1)) ELSE last_good_bpm
              lgt1 == IF valid /\ ~raised THEN now ELSE last_good_t
              e == Emit(script, now, next_tick,
                        OutBpm(args, lg1, lgt1, now),
                        Note(script, args, lg1, lgt1, now, x.snr, x.ip, x.raw_bpm, valid))
          IN  /\ n1 <= MaxAccepts
              /\ clk' = now
              /\ naccept' = n1
              /\ fr' = Some([res |-> res, x |-> x, valid |-> valid, lg0 |-> last_good_bpm])
              /\ q' = q1
              /\ last_good_bpm' = lg1
              /\ last_good_t' = lgt1
              /\ IF raised
                 THEN /\ pc' = "finally"
                      /\ exc' = "ArithmeticError"
                      /\ out' = <<>>
                      /\ UNCHANGED <<next_tick, unixLog>>
                 ELSE /\ out' = e.out
                      /\ next_tick' = e.next_tick
                      /\ unixLog' = unixLog \o [i \in 1..Len(e.out) |-> e.out[i].unix_s]
                      /\ UNCHANGED <<pc, exc>>
    /\ UNCHANGED <<launcher, script, args, session, client, link, csv_fh, cleanup, tick0>>

\* the loop under every reading of the clock up to MaxTick
Frame == FrameStep(ClockFrames, MaxTick)

\* the loop under every frame of Frames, within two seconds of the start
FrameGate == FrameStep(Frames, StartTick + 2 * TicksPerSec - 1)

\* the loop as the life-cycle specification runs it
FrameLife == FrameStep(LifeFrames, StartTick + 2 * TicksPerSec - 1)

\* client.get_next() or proc.process raises: not a KeyboardInterrupt, so the
\* exception stays in flight through the finally block
FetchFail ==
    /\ pc = "loop"
    /\ pc' = "finally"
    /\ exc' = "FetchError"
    /\ link' \in {"up", "down"}
    /\ UNCHANGED <<launcher, script, args, session, client, csv_fh, cleanup, q, last_good_bpm,
                   last_good_t, next_tick, clk, tick0, naccept, fr, out, unixLog>>

\* except KeyboardInterrupt: pass
Interrupt ==
    /\ pc = "loop"
    /\ pc' = "finally"
    /\ exc' = "none"
    /\ UNCHANGED <<launcher, script, args, session, client, link, csv_fh, cleanup, q, last_good_bpm,
                   last_good_t, next_tick, clk, tick0, naccept, fr, out, unixLog>>

\* finally: try: client.stop_session() except: pass; client.disconnect();
\* (v2) if csv_fh: csv_fh.close().  The two client calls can fail once the
\* link is down; only the first is guarded.
DisconnectGuarded == FALSE

Cleanup ==
    /\ pc = "finally"
    /\ \E stopOk \in {TRUE, link = "up"}, discOk \in {TRUE, link = "up"} :
          /\ session' = IF stopOk THEN "stopped" ELSE session
          /\ IF discOk \/ DisconnectGuarded
             THEN /\ client' = IF discOk THEN "disconnected" ELSE client
                  /\ csv_fh' = IF csv_fh = "open" THEN "closed" ELSE csv_fh
                  /\ cleanup' = "completed"
                  /\ exc' = exc
             ELSE /\ cleanup' = "raised"
                  /\ exc' = "DisconnectError"
                  /\ UNCHANGED <<client, csv_fh>>
    /\ pc' = "exited"
    /\ UNCHANGED <<launcher, script, args, link, q, last_good_bpm, last_good_t, next_tick, clk, tick0,
                   naccept, fr, out, unixLog>>

\* main from its first line, both scripts
Next == StartSession \/ Prepare \/ FrameLife \/ FetchFail \/ Interrupt \/ Cleanup
Spec == Init /\ [][Next]_vars

\* the frame loop from the entry to the try block, both scripts; it is left
\* only by the exception the loop body itself can raise
NextLoop == Frame \/ Cleanup
SpecLoop == InitLoop /\ [][NextLoop]_vars

\* the frame loop when frames keep arriving: get_next keeps returning, so an
\* iteration that can change the state is eventually run
FrameArrives == FrameStep(LifeFrames, MaxTick)
NextLive == FrameArrives \/ Cleanup
SpecLive == InitLoop /\ [][NextLive]_vars /\ WF_vars(FrameArrives)

\* the reduction alone: v2's update of last_good_bpm applied to a buffer
\* drawn from every sequence of up to MaxBuf of the values BufValues
BufValues == {1000, 1200, 1400, 1600}
Buffers == UNION {[1..n -> BufValues] : n \in 1..MaxBuf}

InitSmooth ==
    /\ script = "v2"
    /\ q \in Buffers
    /\ args \in {[a EXCEPT !.smooth_window = Len(q)] : a \in ArgsOf("v2")}
    /\ pc = "smooth"
    /\ session = "started"
    /\ client = "connected"
    /\ link = "up"
    /\ csv_fh = "None"
    /\ exc = "none"
    /\ cleanup = "not_run"
    /\ last_good_bpm = None
    /\ last_good_t = 0
    /\ clk = StartTick
    /\ tick0 = FirstTick(clk)
    /\ naccept = Len(q)
    /\ next_tick = FirstTick(clk)
    /\ fr = None
    /\ out = <<>>
    /\ unixLog = <<>>
    /\ launcher = LauncherOff

\* if args.smooth == "median": last_good_bpm = sorted(q)[len(q)//2]
\* else: last_good_bpm = sum(q)/len(q)
ApplySmooth ==
    /\ pc = "smooth"
    /\ pc' = "smoothed"
    /\ last_good_bpm' = Some(Smooth(args.smooth, q))
    /\ UNCHANGED <<launcher, script, args, session, client, link, csv_fh, exc, cleanup, q,
                   last_good_t, next_tick, clk, tick0, naccept, fr, out, unixLog>>

SpecSmooth == InitSmooth /\ [][ApplySmooth]_vars

\* the same loop, fed every kind of frame
NextGate == FrameGate \/ Cleanup
SpecGate == InitLoop /\ [][NextGate]_vars


(***************************************************************************)
(* Properties.                                                             *)
(***************************************************************************)
(* The launcher, run_single_sync.py: two children started in their own     *)
(* sessions, polled, signalled, waited for.                                *)
(***************************************************************************)
\* the sensor scripts' variables, which the launcher does not touch
sensorVars == <<script, args, pc, session, client, link, csv_fh, exc, cleanup, q,
                last_good_bpm, last_good_t, next_tick, clk, tick0, naccept, fr, out,
                unixLog>>

\* the two log files launch_one opens for a child
LogsOf(c) == {<<c, "stdout">>, <<c, "stderr">>}

InitLauncher ==
    /\ script = "v1"
    /\ args \in ArgsOf("v1")
    /\ pc = "start"
    /\ session = "none"
    /\ client = "disconnected"
    /\ link = "up"
    /\ csv_fh = "None"
    /\ exc = "none"
    /\ cleanup = "not_run"
    /\ q = <<>>
    /\ last_good_bpm = None
    /\ last_good_t = 0
    /\ clk = StartTick
    /\ tick0 = FirstTick(clk)
    /\ naccept = 0
    /\ next_tick = FirstTick(clk)
    /\ fr = None
    /\ out = <<>>
    /\ unixLog = <<>>
    /\ \E d \in {0, 1} : launcher = [LauncherOff EXCEPT !.pc = "launch_RADAR", !.max_dur = d]

\* launch_one and the bookkeeping after it (lines 56-65, 69-78): the two
\* opens, then Popen with preexec_fn=os.setsid; an exception of any of them,
\* or a Ctrl+C while they run, leaves main, which has no handler around the
\* launches
Launch(c, nextpc) ==
    /\ launcher.pc = "launch_" \o c
    /\ \E r \in {"ok", "open_fails", "Popen_fails", "KeyboardInterrupt"} :
          launcher' =
              CASE r = "ok" ->
                     [launcher EXCEPT !.pc = nextpc,
                                      !.child[c] = "running",
                                      !.open = @ \cup LogsOf(c),
                                      !.files_to_close = @ \cup LogsOf(c)]
                [] r = "open_fails" ->
                     [launcher EXCEPT !.pc = "exited", !.exc = "OSError"]
                [] r = "Popen_fails" ->
                     [launcher EXCEPT !.pc = "exited", !.exc = "OSError",
                                      !.open = @ \cup LogsOf(c)]
                [] r = "KeyboardInterrupt" ->
                     [launcher EXCEPT !.pc = "exited", !.exc = "KeyboardInterrupt"]
    /\ UNCHANGED sensorVars

LaunchRadar == Launch("RADAR", "launch_GDX")
LaunchGdx == Launch("GDX", "poll")

\* a child ends by itself, or because of a SIGINT it was sent
ChildExits ==
    /\ launcher.pc \in {"launch_GDX", "poll", "wait"}
    /\ \E c \in {"RADAR", "GDX"} :
          /\ launcher.child[c] = "running"
          /\ launcher' = [launcher EXCEPT !.child[c] = "exited"]
    /\ UNCHANGED sensorVars

\* for name, p in procs: try: os.killpg(os.getpgid(p.pid), SIGINT) except: print
\* (a child that has exited and been reaped by poll() has no group: the call
\* raises and the exception is printed)
SigintBoth(l) ==
    [l EXCEPT !.sig = [c \in {"RADAR", "GDX"} |->
                          IF l.child[c] = "running" THEN "SIGINT" ELSE l.sig[c]]]

\* one pass of the while loop that leaves it: both children done, or
\* max_duration_s exceeded (a pass that sleeps changes nothing)
Poll ==
    /\ launcher.pc = "poll"
    /\ \/ /\ \A c \in {"RADAR", "GDX"} : launcher.child[c] # "running"
          /\ launcher' = [launcher EXCEPT !.pc = "wait"]
       \/ /\ \E c \in {"RADAR", "GDX"} : launcher.child[c] = "running"
          /\ launcher.max_dur > 0
          /\ launcher' = [SigintBoth(launcher) EXCEPT !.pc = "wait"]
    /\ UNCHANGED sensorVars

\* except KeyboardInterrupt: SIGINT to both
CtrlC ==
    /\ launcher.pc = "poll"
    /\ launcher' = [SigintBoth(launcher) EXCEPT !.pc = "wait"]
    /\ UNCHANGED sensorVars

\* finally: for name, p in procs: try: p.wait(timeout=5)
\* except Exception: try: os.killpg(..., SIGKILL) except Exception: pass.
\* A KeyboardInterrupt raised in p.wait is not an Exception: it leaves the
\* finally block.
WaitChild ==
    /\ launcher.pc = "wait"
    /\ launcher.i <= Len(Children)
    /\ LET c == Children[launcher.i]
       IN  IF launcher.child[c] # "running"
           THEN launcher' = [launcher EXCEPT !.i = @ + 1]
           ELSE \E r \in {"exits", "timeout", "KeyboardInterrupt"} :
                   launcher' =
                       CASE r = "exits" ->
                              [launcher EXCEPT !.i = @ + 1, !.child[c] = "exited"]
                         [] r = "timeout" ->
                              [launcher EXCEPT !.i = @ + 1, !.sig[c] = "SIGKILL",
                                               !.child[c] = "exited"]
                         [] r = "KeyboardInterrupt" ->
                              [launcher EXCEPT !.pc = "exited", !.exc = "KeyboardInterrupt"]
    /\ UNCHANGED sensorVars

\* for f in files_to_close: try: f.close() except: pass
CloseFiles ==
    /\ launcher.pc = "wait"
    /\ launcher.i > Len(Children)
    /\ launcher' = [launcher EXCEPT !.pc = "exited", !.open = @ \ launcher.files_to_close]
    /\ UNCHANGED sensorVars

NextLauncher == LaunchRadar \/ LaunchGdx \/ ChildExits \/ Poll \/ CtrlC \/ WaitChild \/ CloseFiles
SpecLauncher == InitLauncher /\ [][NextLauncher]_vars


(***************************************************************************)
UnixOf(recs) == [i \in 1..Len(recs) |-> recs[i].unix_s]

\* the whole seconds from a through b, in order
Seconds(a, b) == [i \in 1..(IF b >= a THEN b - a + 1 ELSE 0) |-> a + i - 1]

\* C1: in both scripts the unix_s of the records printed so far are
\* floor(t0)+1, floor(t0)+2, ... in that order (each one more than the one
\* before: none twice, none skipped), and the cursor stands right after the
\* last one printed, so it never moves back.
C1_GaplessSeconds ==
    /\ unixLog = Seconds(tick0, tick0 + Len(unixLog) - 1)
    /\ next_tick = tick0 + Len(unixLog)

\* v1 has printed two records or more in order while its cursor is behind the clock
C1_Witness ==
    /\ script = "v1"
    /\ Len(unixLog) >= 2
    /\ next_tick * TicksPerSec <= clk

\* C2: in v2 every iteration that runs the emitter prints exactly one record
\* for every whole second from the cursor it started with through floor(now),
\* and leaves next_tick > now.
C2_CatchUpV2 ==
    [][(script = "v2" /\ pc = "loop" /\ pc' = "loop")
         => /\ UnixOf(out') = Seconds(next_tick, clk' \div TicksPerSec)
            /\ next_tick' * TicksPerSec > clk']_vars

\* v2 printed the records of three seconds, the first tick among them, in one pass
C2_Witness ==
    /\ script = "v2"
    /\ Len(out) = 3
    /\ out[1].unix_s = tick0
    /\ clk \div TicksPerSec = tick0 + 2

\* C3: in v1 every iteration leaves next_tick > now, and the last record it
\* printed (if any) is the one of second floor(now).
C3_CatchUpV1 ==
    (script = "v1" /\ pc = "loop" /\ fr # None)
        => /\ next_tick * TicksPerSec > clk
           /\ (out # <<>> => out[Len(out)].unix_s = clk \div TicksPerSec)


\* the five gates of the validity gate, for the values x an iteration
\* extracted and the last-good value lg0 it started with
WarmUpGate(x) == x.ip >= 99
QualityGate(a, x) == x.snr = None \/ SnrAtLeast(x.snr[1], a.snr_min)
BandGate(a, x) ==
    x.raw_bpm # None /\ 60 * a.f_low <= x.raw_bpm[1] /\ x.raw_bpm[1] <= 60 * a.f_high
PeakProminenceGate(a, x) ==
    \/ x.ps = None
    \/ Len(x.ps[1]) < 3
    \/ LET t == Sorted(x.ps[1])
       IN  t[Len(t) - 1] <= 0 \/ 100 * t[Len(t)] >= a.prominence_min * t[Len(t) - 1]
PlausibleStepGate(a, x, lg0) ==
    \/ lg0 = None
    \/ LET raw == x.raw_bpm[1]
           lg == lg0[1]
       IN  /\ raw * lg.d - lg.n <= a.max_step_bpm * lg.d
           /\ lg.n - raw * lg.d <= a.max_step_bpm * lg.d
           /\ 100 * raw * lg.d <= a.max_ratio * lg.n
           /\ a.max_ratio * raw * lg.d >= 100 * lg.n

\* C4: in v2 a value enters the buffer only from a frame that passed all five
\* gates (warm-up, quality, band, prominence when a spectrum was available,
\* plausible step against the last-good value of that moment).
C4_BufferOnlyGated ==
    (script = "v2" /\ pc = "loop" /\ fr # None /\ fr[1].valid /\ q # <<>>)
        => /\ q[Len(q)] = fr[1].x.raw_bpm[1]
           /\ WarmUpGate(fr[1].x)
           /\ QualityGate(args, fr[1].x)
           /\ BandGate(args, fr[1].x)
           /\ PeakProminenceGate(args, fr[1].x)
           /\ PlausibleStepGate(args, fr[1].x, fr[1].lg0)

\* m is the k-th smallest entry of d
AtSortedPos(d, k, m) ==
    /\ \E i \in 1..Len(d) : d[i] = m
    /\ Cardinality({i \in 1..Len(d) : d[i] < m}) < k
    /\ Cardinality({i \in 1..Len(d) : d[i] <= m}) >= k

\* v is the reduction of d the command line asks for: the mean, or a middle
\* entry of the sorted buffer
IsReduction(method, d, v) ==
    IF method = "mean"
    THEN v.n * Len(d) = v.d * SumSeq(d)
    ELSE /\ v.d = 1
         /\ \/ AtSortedPos(d, (Len(d) + 1) \div 2, v.n)
            \/ AtSortedPos(d, Len(d) \div 2 + 1, v.n)

\* C5: the smoothed value is absent exactly when the buffer is empty, and
\* otherwise it is the configured reduction (mean or median) of what the
\* buffer holds now.
C5_SmoothedFromBuffer ==
    /\ (last_good_bpm = None) <=> (q = <<>>)
    /\ q # <<>> => IsReduction(args.smooth, q, last_good_bpm[1])

\* a mean taken over a full buffer that has already evicted an entry
C5_Witness ==
    /\ args.smooth = "mean"
    /\ Len(q) = args.smooth_window
    /\ naccept > Len(q)
    /\ q[1] # q[Len(q)]

\* C6 as stated: with the median, the smoothed value is the middle entry of
\* the sorted buffer for an odd count and the lower middle (position n/2)
\* for an even count; [10,12,14,16] gives 12.
C6_LowerMiddle ==
    (pc = "smoothed" /\ args.smooth = "median")
        => /\ last_good_bpm[1].d = 1
           /\ AtSortedPos(q, (Len(q) + 1) \div 2, last_good_bpm[1].n)
           /\ (q = <<1000, 1200, 1400, 1600>> => last_good_bpm[1].n = 1200)

\* C6 amended: with the median, the smoothed value is the entry at position
\* n \div 2 + 1 of the sorted buffer: the middle for an odd count, the upper
\* middle for an even count; [10,12,14,16] gives 14.
C6_UpperMiddle ==
    (pc = "smoothed" /\ args.smooth = "median")
        => /\ last_good_bpm[1].d = 1
           /\ AtSortedPos(q, Len(q) \div 2 + 1, last_good_bpm[1].n)
           /\ (q = <<1000, 1200, 1400, 1600>> => last_good_bpm[1].n = 1400)

\* the median of the buffer [10, 12, 14, 16] has been taken
C6_Witness ==
    /\ pc = "smoothed"
    /\ args.smooth = "median"
    /\ q = <<1000, 1200, 1400, 1600>>

\* C7: in both scripts a printed record has a bpm exactly when a smoothed
\* value exists and now - last_good_t <= hold_last_for; otherwise its bpm is
\* empty (not zero, not the stale value).
C7_HoldCutoff ==
    \A i \in 1..Len(out) :
        IF last_good_bpm # None /\ clk - last_good_t <= args.hold_last_for
        THEN out[i].bpm # None
        ELSE out[i].bpm = None

\* a record printed exactly hold_last_for after the last acceptance, and
\* with a bpm
C7_Witness ==
    /\ out # <<>>
    /\ last_good_bpm # None
    /\ clk - last_good_t = args.hold_last_for
    /\ out[1].bpm # None

\* C8: in v2, once the session has been started, every way out of main has
\* run the cleanup phase.
C8_CleanupOnEveryExit ==
    (script = "v2" /\ pc = "exited" /\ session # "none") => cleanup # "not_run"

\* C9: the cleanup phase, when it runs, does not raise and leaves no output
\* file open, whether or not stop_session and disconnect fail.
C9_CleanupNeverRaises ==
    (pc = "exited" /\ cleanup # "not_run")
        => /\ cleanup = "completed"
           /\ exc # "DisconnectError"
           /\ csv_fh # "open"

\* what the extraction makes of the frame {snr = 12, progress = 1.0, raw_bpm = r}
ExampleFrame(x, r) ==
    /\ x.ip = 100
    /\ x.snr = Some([k |-> "db", n |-> 1200, d |-> 1])
    /\ x.raw_bpm = Some(r)

\* C10: in both scripts a frame is accepted only if the base gates hold
\* (progress >= 0.99, quality unknown or >= snr_min, a raw bpm inside
\* [60*f_low, 60*f_high]); with no previous value, an unknown quality does
\* not reject a frame that passes the other two; {snr 12, progress 1.0,
\* raw 15} is accepted when no previous value exists and raw 100 is rejected.
C10_BaseGates ==
    fr # None =>
        LET x == fr[1].x
        IN  /\ fr[1].valid => (WarmUpGate(x) /\ QualityGate(args, x) /\ BandGate(args, x))
            /\ (x.snr = None /\ WarmUpGate(x) /\ BandGate(args, x)
                    /\ (script = "v1" \/ fr[1].lg0 = None))
                   => fr[1].valid
            /\ (ExampleFrame(x, 1500) /\ (script = "v1" \/ fr[1].lg0 = None)) => fr[1].valid
            /\ ExampleFrame(x, 10000) => ~fr[1].valid

\* the frame {snr = 12, progress = 1.0, raw_bpm = 15} has been accepted by v2
\* under f_low = 0.12, f_high = 0.70, snr_min = 10 with no previous value
C10_Witness ==
    /\ script = "v2"
    /\ fr # None
    /\ ExampleFrame(fr[1].x, 1500)
    /\ fr[1].lg0 = None
    /\ fr[1].valid
    /\ q = <<1500>>


\* what reaches safe_float for the key k of a frame: the entry, or the False
\* of `isinstance(res, dict) and res.get(k)` when res is not a dict
IsBoolean(res, k) == ~res.dict \/ Get(res, k).t = "bool"

\* C11: in both scripts a boolean-valued frame field, or the False that
\* stands for a field of a non-dict frame, never becomes a quality, an
\* init-progress or a frequency number: with no spectrum the quality is
\* unknown, the progress is the default 1.0, and the rate is not taken from
\* a boolean f_est.
C11_BooleanNeverNumber ==
    fr # None =>
        LET res == fr[1].res
            x == fr[1].x
        IN  /\ (IsBoolean(res, "snr") /\ x.ps = None) => x.snr = None
            /\ IsBoolean(res, "init_progress") => x.ip = 100
            /\ (res.dict /\ Get(res, "f_est").t = "bool")
                   => x.raw_bpm \notin {Some(0), Some(6000)}


\* the current frame passed the warm-up, quality and band gates
PassedBaseGates(a, x) == WarmUpGate(x) /\ QualityGate(a, x) /\ BandGate(a, x)

\* C12: in v2 a frame that passes the warm-up, quality and band gates and
\* whose spectrum has a positive second-largest value with
\* largest / second-largest < prominence_min is rejected: nothing is pushed
\* into the buffer and the smoothed value and its timestamp do not change.
C12_LowProminenceRejected ==
    [][(script = "v2" /\ pc = "loop" /\ fr' # None
            /\ PassedBaseGates(args, fr'[1].x)
            /\ ~PeakProminenceGate(args, fr'[1].x))
        => /\ ~fr'[1].valid
           /\ q' = q
           /\ last_good_bpm' = last_good_bpm
           /\ last_good_t' = last_good_t]_vars

\* C13: in v2, with a previous smoothed value, a frame that passed gates 1-4
\* is accepted exactly when |raw - last_good| <= max_step_bpm and
\* 1/max_ratio <= raw/last_good <= max_ratio (last_good 15: raw 20 accepted,
\* raw 23 and raw 25 rejected); with no previous value a frame that passed
\* gates 1-4 is always accepted.
C13_PlausibleStep ==
    /\ (script = "v2" /\ fr # None
            /\ PassedBaseGates(args, fr[1].x) /\ PeakProminenceGate(args, fr[1].x))
        => /\ fr[1].valid <=> PlausibleStepGate(args, fr[1].x, fr[1].lg0)
           /\ fr[1].lg0 = None => fr[1].valid
           /\ (fr[1].lg0 = Some(Whole(1500)) /\ fr[1].x.raw_bpm = Some(2000)) => fr[1].valid
           /\ (fr[1].lg0 = Some(Whole(1500)) /\ fr[1].x.raw_bpm = Some(2300)) => ~fr[1].valid
    /\ StepGate(args, TRUE, Some(2000), Some(Whole(1500)))
    /\ ~StepGate(args, TRUE, Some(2300), Some(Whole(1500)))
    /\ ~StepGate(args, TRUE, Some(2500), Some(Whole(1500)))

\* with last_good = 15, a frame of 23 bpm that passed gates 1-4 was rejected
C13_Witness ==
    /\ script = "v2"
    /\ fr # None
    /\ fr[1].lg0 = Some(Whole(1500))
    /\ fr[1].x.raw_bpm = Some(2300)
    /\ PassedBaseGates(args, fr[1].x)
    /\ PeakProminenceGate(args, fr[1].x)
    /\ ~fr[1].valid
    /\ q = <<1500>>


\* C14: in both scripts an iteration that rejects its frame leaves the
\* buffer, the smoothed value and the acceptance timestamp as they were,
\* stays in the loop, and still runs the emitter (a record is printed for
\* next_tick when the clock has reached it).
C14_RejectedFrameNoEffect ==
    [][(pc = "loop" /\ fr' # None /\ ~fr'[1].valid)
        => /\ q' = q
           /\ last_good_bpm' = last_good_bpm
           /\ last_good_t' = last_good_t
           /\ pc' = "loop"
           /\ clk' >= next_tick * TicksPerSec
                  => /\ out' # <<>>
                     /\ out'[1].unix_s = next_tick
                     /\ next_tick' > next_tick]_vars

\* a frame with a raw bpm was rejected after an acceptance, and the emitter
\* printed a record in that iteration
C14_Witness ==
    /\ pc = "loop"
    /\ fr # None
    /\ ~fr[1].valid
    /\ fr[1].x.raw_bpm # None
    /\ q # <<>>
    /\ out # <<>>


\* the last n entries of s (all of s when it has no more than n)
LastN(s, n) == IF Len(s) <= n THEN s ELSE SubSeq(s, Len(s) - n + 1, Len(s))

\* C15: in v2 the buffer holds at most smooth_window values; after k
\* acceptances it holds min(k, smooth_window) values, and each acceptance
\* appends the accepted raw bpm at the end, evicting only the oldest value
\* when the buffer was full (so the buffer is the last min(k, smooth_window)
\* accepted values in acceptance order, duplicates kept).
C15_BufferLastAccepted ==
    /\ [](script = "v2" =>
            /\ Len(q) <= args.smooth_window
            /\ Len(q) = (IF naccept < args.smooth_window THEN naccept ELSE args.smooth_window))
    /\ [][(script = "v2" /\ pc = "loop" /\ fr' # None /\ fr'[1].valid)
            => q' = LastN(Append(q, fr'[1].x.raw_bpm[1]), args.smooth_window)]_vars

\* a full buffer of two equal values after a third acceptance evicted the
\* oldest
C15_Witness ==
    /\ script = "v2"
    /\ args.smooth_window >= 2
    /\ Len(q) = args.smooth_window
    /\ naccept > Len(q)
    /\ q[1] = q[2]
    /\ fr # None
    /\ fr[1].valid


\* C16: in v2 all records printed in one iteration carry the same bpm and
\* note and consecutive unix_s, and the buffer, the smoothed value and the
\* acceptance timestamp after an iteration are those the update step left,
\* however many records the emitter printed: untouched on a rejected frame,
\* and on an accepted one the buffer with the raw bpm appended, its
\* reduction, and now.
C16_EmitterReadsOnly ==
    /\ [](script = "v2" =>
            \A i \in 1..Len(out) :
                /\ out[i].bpm = out[1].bpm
                /\ out[i].note = out[1].note
                /\ out[i].unix_s = out[1].unix_s + i - 1)
    /\ [][(script = "v2" /\ pc = "loop" /\ pc' = "loop" /\ fr' # None)
            => IF fr'[1].valid
               THEN /\ q' = LastN(Append(q, fr'[1].x.raw_bpm[1]), args.smooth_window)
                    /\ IsReduction(args.smooth, q', last_good_bpm'[1])
                    /\ last_good_t' = clk'
               ELSE /\ q' = q
                    /\ last_good_bpm' = last_good_bpm
                    /\ last_good_t' = last_good_t]_vars

\* three records printed in one iteration, with a bpm
C16_Witness ==
    /\ script = "v2"
    /\ Len(out) = 3
    /\ out[1].bpm # None
    /\ out[3].bpm # None
    /\ Len(out[1].note) >= 2


\* the note has a raw=<value> token
HasRaw(note) == \E i \in 1..Len(note) : note[i].name = "raw"

\* C17 as stated: in v2 a record's note has a raw token only when the
\* frame's raw bpm is in band and the frame was rejected by a gate later
\* than the band gate; a frame rejected by the warm-up or quality gate, out
\* of band, or accepted never produces one.
C17_RawOnlyLaterGate ==
    (script = "v2" /\ fr # None) =>
        \A i \in 1..Len(out) :
            HasRaw(out[i].note) => (PassedBaseGates(args, fr[1].x) /\ ~fr[1].valid)

\* C17 amended: in v2 a record's note has a raw token exactly when the
\* frame's raw bpm is in band and the frame was rejected, whichever gate
\* rejected it (warm-up and quality included), and the token carries that
\* raw bpm; a frame out of band, without a raw bpm, or accepted never
\* produces one.
C17_RawWhenInBandRejected ==
    (script = "v2" /\ fr # None) =>
        \A i \in 1..Len(out) :
            /\ HasRaw(out[i].note) <=> (BandGate(args, fr[1].x) /\ ~fr[1].valid)
            /\ \A j \in 1..Len(out[i].note) :
                   out[i].note[j].name = "raw" => out[i].note[j].n = fr[1].x.raw_bpm[1]

\* a record with a raw token for a frame the quality gate rejected
C17_Witness ==
    /\ script = "v2"
    /\ fr # None
    /\ out # <<>>
    /\ HasRaw(out[1].note)
    /\ WarmUpGate(fr[1].x)
    /\ ~QualityGate(args, fr[1].x)


\* the whole seconds the clock of the model can reach
ClockSeconds == (StartTick \div TicksPerSec)..(MaxTick \div TicksPerSec)

\* a record for the second s has been printed
Printed(s) == \E i \in 1..Len(unixLog) : unixLog[i] = s

\* C18: in both scripts, while frames keep arriving, every whole second
\* s >= floor(t0)+1 that the clock has reached eventually has a record, no
\* second has two, and no record is printed before the clock reached its
\* second.
C18_EverySecondEventually ==
    /\ [](\A i, j \in 1..Len(unixLog) : unixLog[i] = unixLog[j] => i = j)
    /\ [](\A i \in 1..Len(unixLog) :
              unixLog[i] >= tick0 /\ unixLog[i] * TicksPerSec <= clk)
    /\ \A s \in ClockSeconds :
           (args.smooth_window > 0 /\ s >= tick0 /\ clk >= s * TicksPerSec) ~> Printed(s)

\* v1 has printed the record of its first second two seconds late
C18_Witness ==
    /\ script = "v1"
    /\ unixLog = <<tick0>>
    /\ out # <<>>
    /\ out[1].unix_s = tick0
    /\ out[1].hms = tick0 + 2


\* C19: in v2 the smoothed value is never cleared once set, and the step
\* gate compares against it whether or not the hold has expired: a frame
\* whose raw bpm is too far from it (by max_step_bpm or by the ratio bound)
\* is rejected and leaves the buffer, the smoothed value and the timestamp
\* as they were, and every record printed after the hold expired has an
\* empty bpm.  (So if every later frame is that far away, no frame is ever
\* accepted again.)
C19_StaleLastGoodBlocks ==
    [][(script = "v2" /\ pc = "loop" /\ last_good_bpm # None /\ fr' # None)
        => /\ last_good_bpm' # None
           /\ (fr'[1].x.raw_bpm # None
                   /\ ~PlausibleStepGate(args, fr'[1].x, last_good_bpm))
                  => /\ ~fr'[1].valid
                     /\ q' = q
                     /\ last_good_bpm' = last_good_bpm
                     /\ last_good_t' = last_good_t
                     /\ clk' - last_good_t > args.hold_last_for
                            => \A i \in 1..Len(out') : out'[i].bpm = None]_vars

\* after the hold expired, a frame in band but 8 bpm away from the smoothed
\* value was rejected and the record printed has no bpm
C19_Witness ==
    /\ script = "v2"
    /\ fr # None
    /\ fr[1].lg0 = Some(Whole(1500))
    /\ last_good_bpm = Some(Whole(1500))
    /\ fr[1].x.raw_bpm = Some(2300)
    /\ PassedBaseGates(args, fr[1].x)
    /\ ~fr[1].valid
    /\ clk - last_good_t > args.hold_last_for
    /\ out # <<>>
    /\ out[1].bpm = None


\* C20: in the launcher, on Ctrl+C or when max_duration_s is exceeded SIGINT
\* goes to the process group of each child still running, a child that
\* does not exit within 5 seconds of the final wait gets SIGKILL, and on
\* every path out of main no launched child is left running unsignalled and
\* every opened log file is closed.
C20_TerminationForwarded ==
    /\ (launcher.pc = "wait" /\ launcher.i = 1)
           => \A c \in {"RADAR", "GDX"} :
                  launcher.child[c] = "running" => launcher.sig[c] = "SIGINT"
    /\ launcher.pc = "exited"
           => /\ \A c \in {"RADAR", "GDX"} :
                     launcher.child[c] = "running" => launcher.sig[c] # "none"
              /\ launcher.open = {}

====
